---- MODULE Spec2Model ----
(***************************************************************************)
(* Model of konfuzio_sdk/api.py: the retrying GET (retry_get) and the      *)
(* resource operations built on the HTTP session.  One call of one         *)
(* operation is followed from its entry to its return or its exception.    *)
(* The server is the environment: it chooses the status and the body of    *)
(* every response.  Error responses carry the API's JSON error object      *)
(* {"detail": <message>}, which the code reads with json.loads.            *)
(***************************************************************************)
EXTENDS Integers, Sequences, FiniteSets, TLC

VARIABLES
    op,           \* the operation being called
    pc,           \* position in the call: "get", "sleep", "ret", "done", "raised"
    r,            \* the local r: <<>> while unbound, else <<response>>
    retry_count,  \* the local retry_count of retry_get
    exc,          \* <<>>, or <<exception>> once the call has raised
    ret,          \* <<>>, or <<value>> once the call has returned
    url,          \* the page the next GET of get_meta_of_files asks for
    result,       \* the local result of get_meta_of_files
    served,       \* the parsed bodies (r.json()) read so far, in order
    gets,         \* number of GET requests issued by the current call
    sleeps,       \* number of time.sleep calls made by the current retry_get
    slept,        \* total time slept by the current retry_get
    failures,     \* number of responses with a retryable error status, counted
                  \* for a direct call of retry_get
    deletes,      \* number of DELETE requests issued by the call
    posts,        \* number of POST requests issued by the call
    noanswer,     \* GET attempts of a direct call of retry_get that got no response:
                  \* "never", "last" (the latest attempt), "before" (an earlier one)
    file,         \* the file at filepath: <<>> when missing, else <<size>>
    warned,       \* whether is_file has logged its warning
    envfile,      \* the lines of the .env file, <<>> while it does not exist
    token,        \* the local token of init_env: <<>> while unbound
    rows,         \* the local rows of init_env: the identifiers offered
    selection     \* the project id entered in init_env: <<>> before the prompt

vars == <<op, pc, r, retry_count, exc, ret, url, result, served,
          gets, sleeps, slept, failures, deletes,
          posts, noanswer, file, warned, envfile, token, rows, selection>>

\* the state of the upload and of the init flow
uploadVars == <<file, warned>>
initVars == <<envfile, token, rows, selection>>

----------------------------------------------------------------------------
(* Bounds of the model *)

MaxPages == 2
MaxPageLen == 2
MaxAnnotations == 2

(* Program constants *)

MaxRetries == 10
SleepSeconds == 15

----------------------------------------------------------------------------
(* Values *)

None == <<>>
Some(v) == <<v>>

Statuses == {200, 204, 304, 400, 401, 402, 403, 404, 500, 503}
Details == {"bad token", "unavailable"}

\* requests.Response.raise_for_status(): HTTPError for 4xx and 5xx
RaisesForStatus(s) == 400 <= s /\ s < 600

\* the responses of the server: an error response carries a detail message
Responses ==
    {[status |-> s, detail |-> d] : s \in {t \in Statuses : RaisesForStatus(t)}, d \in Details}
    \cup {[status |-> s, detail |-> ""] : s \in {t \in Statuses : ~RaisesForStatus(t)}}

IsSuccess(s) == 200 <= s /\ s <= 299

IsAuthStatusNarrow(s) == 401 <= s /\ s < 403
IsAuthStatus(s) == 401 <= s /\ s <= 403

IsServerError(s) == s = 500

RetriesExhaustedEarly(c) == c >= MaxRetries - 1
RetriesExhaustedLate(c) == c > MaxRetries
RetriesExhausted(c) == c >= MaxRetries

ConnectionError(d) ==
    [type |-> "ConnectionError", text |-> "Problem with credentials", detail |-> d]
ServerTimeoutError(d) ==
    [type |-> "TimeoutError", text |-> "Problem with server", detail |-> d]
RetryTimeoutError(d) ==
    [type |-> "TimeoutError", text |-> "Unknown issue even after 10 retries", detail |-> d]

\* a retryable error status: an HTTP error other than 401..403 and 500, the
\* statuses that reach the else branch of the except block
Retryable(s) == 400 <= s /\ s < 600 /\ ~(401 <= s /\ s <= 403) /\ s # 500

\* where retry_get hands its response: to its caller, or out of the call
AfterReturn(o) == IF o = "retry_get" THEN "done" ELSE "ret"

----------------------------------------------------------------------------
(* retry_get *)

\* the latest GET attempt was answered
Answered(n) == IF n = "never" THEN "never" ELSE "before"

\* retry_get has returned to its caller: its locals and the counts of its
\* requests and sleeps are gone, and the next call starts with retry_count = 0
RetryGetLocalsDropped ==
    /\ retry_count' = 0
    /\ gets' = 0
    /\ sleeps' = 0
    /\ slept' = 0
    /\ failures' = 0
    /\ noanswer' = "never"

\* one pass of the while loop up to the break, the raise or the sleep
RetryGetRequest ==
    /\ pc = "get"
    /\ \E resp \in Responses :
        /\ r' = Some(resp)
        /\ IF ~RaisesForStatus(resp.status)
           THEN /\ pc' = AfterReturn(op)
                /\ IF op = "retry_get"
                   THEN /\ ret' = Some(resp)
                        /\ gets' = gets + 1
                        /\ noanswer' = Answered(noanswer)
                        /\ UNCHANGED <<retry_count, sleeps, slept, failures>>
                   ELSE /\ ret' = ret
                        /\ RetryGetLocalsDropped
                /\ exc' = exc
           ELSE /\ gets' = gets + 1
                /\ noanswer' = Answered(noanswer)
                /\ failures' = IF Retryable(resp.status) /\ op = "retry_get"
                               THEN failures + 1 ELSE failures
                /\ UNCHANGED <<sleeps, slept>>
                /\ IF IsAuthStatus(resp.status)
                   THEN /\ pc' = "raised"
                        /\ exc' = Some(ConnectionError(resp.detail))
                        /\ UNCHANGED <<retry_count, ret>>
                   ELSE IF IsServerError(resp.status)
                   THEN /\ pc' = "raised"
                        /\ exc' = Some(ServerTimeoutError(resp.detail))
                        /\ UNCHANGED <<retry_count, ret>>
                   ELSE /\ retry_count' = retry_count + 1
                        /\ IF RetriesExhausted(retry_count + 1)
                           THEN /\ pc' = "raised"
                                /\ exc' = Some(RetryTimeoutError(resp.detail))
                           ELSE /\ pc' = "sleep"
                                /\ exc' = exc
                        /\ ret' = ret
    /\ UNCHANGED <<op, url, result, served, deletes>>
    /\ UNCHANGED <<posts, uploadVars, initVars>>

RetryGetSleep ==
    /\ pc = "sleep"
    /\ sleeps' = sleeps + 1
    /\ slept' = slept + SleepSeconds
    /\ pc' = "get"
    /\ UNCHANGED <<op, r, retry_count, exc, ret, url, result, served,
                   gets, failures, deletes>>
    /\ UNCHANGED <<posts, noanswer, uploadVars, initVars>>

UnboundLocalError ==
    [type |-> "UnboundLocalError", text |-> "local variable 'r' referenced before assignment",
     detail |-> ""]

\* one pass of the while loop in which session.get raises, the server giving
\* no response: r keeps what the call bound to it before, if anything, and the
\* except block reads it
RetryGetNoResponse ==
    /\ pc = "get"
    /\ gets' = gets + 1
    /\ noanswer' = IF op = "retry_get" THEN "last" ELSE noanswer
    /\ IF gets = 0
       THEN \* the first attempt of the call: r is unbound
            /\ pc' = "raised"
            /\ exc' = Some(UnboundLocalError)
            /\ UNCHANGED retry_count
       ELSE IF IsAuthStatus(r[1].status)
       THEN /\ pc' = "raised"
            /\ exc' = Some(ConnectionError(r[1].detail))
            /\ UNCHANGED retry_count
       ELSE IF IsServerError(r[1].status)
       THEN /\ pc' = "raised"
            /\ exc' = Some(ServerTimeoutError(r[1].detail))
            /\ UNCHANGED retry_count
       ELSE /\ retry_count' = retry_count + 1
            /\ IF RetriesExhausted(retry_count + 1)
               THEN /\ pc' = "raised"
                    /\ exc' = Some(RetryTimeoutError(r[1].detail))
               ELSE /\ pc' = "sleep"
                    /\ exc' = exc
    /\ UNCHANGED <<op, r, ret, url, result, served, sleeps, slept, failures, deletes>>
    /\ UNCHANGED <<posts, uploadVars, initVars>>

----------------------------------------------------------------------------
(* get_meta_of_files *)

RECURSIVE SeqsUpTo(_, _)
\* the sequences over S of length at most n
SeqsUpTo(S, n) ==
    IF n = 0 THEN {<<>>}
    ELSE LET shorter == SeqsUpTo(S, n - 1)
         IN  shorter \cup {Append(s, x) : s \in {t \in shorter : Len(t) = n - 1}, x \in S}

\* document records of the documents endpoint: identifier and dataset status
\* (NONE = 0, PREPARATION = 1, TRAINING = 2, TEST = 3, LOW_OCR_QUALITY = 4)
Docs == {[id |-> 1, dataset_status |-> 3],
         [id |-> 2, dataset_status |-> 2],
         [id |-> 3, dataset_status |-> 1]}

\* the bodies the server may answer the GET of page n with: a mapping with
\* `results` and a `next` that is absent, null or the URL of page n + 1, or a
\* plain sequence
Bodies(n) ==
    LET items == SeqsUpTo(Docs, MaxPageLen)
        nexts == {<<FALSE, None>>, <<TRUE, None>>}
                   \cup (IF n < MaxPages THEN {<<TRUE, Some(n + 1)>>} ELSE {})
    IN  {[kind |-> "mapping", results |-> i, has_next |-> nx[1], next |-> nx[2]] :
            i \in items, nx \in nexts}
        \cup {[kind |-> "sequence", results |-> i, has_next |-> FALSE, next |-> None] :
            i \in items}

\* isinstance(data, dict) and 'results' in data.keys()
IsPaginated(data) == data.kind = "mapping"

\* 'next' in data.keys() and data['next']
HasNext(data) == data.has_next /\ data.next # None

AccumulateReplace(res, data) == data.results
\* result += data['results']
Accumulate(res, data) == res \o data.results

RECURSIVE InsertById(_, _)
InsertById(x, s) ==
    IF s = <<>> THEN <<x>>
    ELSE IF x.id < Head(s).id THEN <<x>> \o s
    ELSE <<Head(s)>> \o InsertById(x, Tail(s))

RECURSIVE SortById(_)
\* sorted(result, key=itemgetter('id')): a stable sort
SortById(s) ==
    IF s = <<>> THEN <<>>
    ELSE InsertById(s[Len(s)], SortById(SubSeq(s, 1, Len(s) - 1)))

InDatasetTrainingOnly(x) == x.dataset_status \in {2}
\* x['dataset_status'] in [2, 3]
InDataset(x) == x.dataset_status \in {2, 3}

\* [x for x in sorted_documents if x['dataset_status'] in [2, 3]]
FilterDataset(s) == SelectSeq(s, InDataset)

\* the sort, the filter and the return value
SortedDatasetDocuments(res) == FilterDataset(SortById(res))

\* r.json() and the body of the while loop after retry_get has returned; when
\* the loop breaks, the sort, the filter and the return
MetaPage ==
    /\ op = "get_meta_of_files"
    /\ pc = "ret"
    /\ \E data \in Bodies(url) :
        /\ served' = Append(served, data)
        /\ IF IsPaginated(data) /\ HasNext(data)
           THEN /\ result' = Accumulate(result, data)
                /\ url' = data.next[1]
                /\ pc' = "get"
                /\ ret' = ret
           ELSE /\ result' = IF IsPaginated(data) THEN Accumulate(result, data)
                                                 ELSE data.results
                /\ url' = url
                /\ pc' = "done"
                /\ ret' = Some(SortedDatasetDocuments(result'))
    /\ UNCHANGED <<op, r, retry_count, exc, gets, sleeps, slept, failures, deletes>>
    /\ UNCHANGED <<posts, noanswer, uploadVars, initVars>>

----------------------------------------------------------------------------
(* get_document_annotations, get_document_sections *)

Offsets == {None, Some(1), Some(2)}
Ids == {None, Some(7)}

Annotations ==
    [id : Ids, revised : BOOLEAN, is_correct : BOOLEAN, start_offset : Offsets]

\* x['revised'] or x['is_correct'] or not x['id']
KeepAnnotation(x) == x.revised \/ x.is_correct \/ x.id = None

\* annotation['revised'] or annotation['is_correct']
KeepSection(x) == x.revised \/ x.is_correct

\* the sort key (x.get('start_offset') is None, x.get('start_offset')):
\* a < b on the key tuples
OffsetKeyLess(a, b) ==
    \/ a.start_offset # None /\ b.start_offset = None
    \/ /\ a.start_offset # None
       /\ b.start_offset # None
       /\ a.start_offset[1] < b.start_offset[1]

RECURSIVE InsertByOffset(_, _)
InsertByOffset(x, s) ==
    IF s = <<>> THEN <<x>>
    ELSE IF OffsetKeyLess(x, Head(s)) THEN <<x>> \o s
    ELSE <<Head(s)>> \o InsertByOffset(x, Tail(s))

RECURSIVE SortByOffset(_)
\* sorted(..., key=lambda x: (x.get('start_offset') is None, x.get('start_offset')))
SortByOffset(s) ==
    IF s = <<>> THEN <<>>
    ELSE InsertByOffset(s[Len(s)], SortByOffset(SubSeq(s, 1, Len(s) - 1)))

\* sorted(..., key=itemgetter("start_offset")) compares the offsets themselves:
\* with two or more entries every entry is compared, and None < x raises
ItemgetterSortRaises(s) ==
    Len(s) >= 2 /\ \E i \in 1..Len(s) : s[i].start_offset = None

TypeError ==
    [type |-> "TypeError", text |-> "'<' not supported", detail |-> ""]

GetDocumentAnnotations ==
    /\ op = "get_document_annotations"
    /\ pc = "ret"
    /\ \E annotations \in SeqsUpTo(Annotations, MaxAnnotations) :
        /\ served' = Append(served, annotations)
        /\ ret' = Some(SortByOffset(SelectSeq(annotations, KeepAnnotation)))
    /\ pc' = "done"
    /\ UNCHANGED <<op, r, retry_count, exc, url, result,
                   gets, sleeps, slept, failures, deletes>>
    /\ UNCHANGED <<posts, noanswer, uploadVars, initVars>>

GetDocumentSections ==
    /\ op = "get_document_sections"
    /\ pc = "ret"
    /\ \E annotations \in SeqsUpTo(Annotations, MaxAnnotations) :
        /\ served' = Append(served, annotations)
        /\ LET revised_annotations == SelectSeq(annotations, KeepSection)
           IN  IF ItemgetterSortRaises(revised_annotations)
               THEN /\ exc' = Some(TypeError)
                    /\ ret' = ret
                    /\ pc' = "raised"
               ELSE /\ ret' = Some(SortByOffset(revised_annotations))
                    /\ exc' = exc
                    /\ pc' = "done"
    /\ UNCHANGED <<op, r, retry_count, url, result,
                   gets, sleeps, slept, failures, deletes>>
    /\ UNCHANGED <<posts, noanswer, uploadVars, initVars>>

----------------------------------------------------------------------------
(* download_file_konfuzio_api *)

ContentTypes ==
    {None, Some("application/pdf"), Some("image/jpeg"), Some("image/png"),
     Some("image/jpg"), Some("text/html")}
Contents == {"bytes-a", "bytes-b"}

DownloadResponses ==
    {[status |-> a.status, detail |-> a.detail, content_type |-> ct, content |-> c] :
        a \in Responses, ct \in ContentTypes, c \in Contents}

ContentTypeAllowedWithHtml(ct) ==
    ct \in {Some("application/pdf"), Some("image/jpeg"), Some("image/png"),
            Some("image/jpg"), Some("text/html")}
\* content_type in ['application/pdf', 'image/jpeg', 'image/png', 'image/jpg']
ContentTypeAllowed(ct) ==
    ct \in {Some("application/pdf"), Some("image/jpeg"), Some("image/png"),
            Some("image/jpg")}

FileNotFoundError(d) ==
    [type |-> "FileNotFoundError", text |-> "", detail |-> d]
ContentTypeError ==
    [type |-> "FileNotFoundError", text |-> "CONTENT TYP", detail |-> ""]

DownloadFile ==
    /\ op = "download_file_konfuzio_api"
    /\ pc = "call"
    /\ \E resp \in DownloadResponses :
        /\ r' = Some(resp)
        /\ gets' = gets + 1
        /\ IF RaisesForStatus(resp.status) /\ resp.status # 200
           THEN /\ exc' = Some(FileNotFoundError(resp.detail))
                /\ ret' = ret
                /\ pc' = "raised"
           ELSE IF ~ContentTypeAllowed(resp.content_type)
           THEN /\ exc' = Some(ContentTypeError)
                /\ ret' = ret
                /\ pc' = "raised"
           ELSE /\ ret' = Some(resp.content)
                /\ exc' = exc
                /\ pc' = "done"
    /\ UNCHANGED <<op, retry_count, url, result, served,
                   sleeps, slept, failures, deletes>>
    /\ UNCHANGED <<posts, noanswer, uploadVars, initVars>>

----------------------------------------------------------------------------
(* delete_file_konfuzio_api *)

AssertionError ==
    [type |-> "AssertionError", text |-> "", detail |-> ""]

DeleteSucceededAnySuccess(s) == 200 <= s /\ s <= 299
\* assert r.status_code == 204
DeleteSucceeded(s) == s = 204

DeleteFile ==
    /\ op = "delete_file_konfuzio_api"
    /\ pc = "call"
    /\ \E resp \in Responses :
        /\ r' = Some(resp)
        /\ deletes' = deletes + 1
        /\ IF DeleteSucceeded(resp.status)
           THEN /\ ret' = Some(TRUE)
                /\ exc' = exc
                /\ pc' = "done"
           ELSE /\ exc' = Some(AssertionError)
                /\ ret' = ret
                /\ pc' = "raised"
    /\ UNCHANGED <<op, retry_count, url, result, served,
                   gets, sleeps, slept, failures>>
    /\ UNCHANGED <<posts, noanswer, uploadVars, initVars>>

----------------------------------------------------------------------------
(* post_document_bulk_annotation, post_document_annotation, create_label,  *)
(* delete_document_annotation                                               *)

\* the responses to a POST: those of a GET and 201 Created
PostResponses == Responses \cup {[status |-> 201, detail |-> ""]}

HTTPError ==
    [type |-> "HTTPError", text |-> "", detail |-> ""]
KeyError ==
    [type |-> "KeyError", text |-> "csrftoken", detail |-> ""]

AfterBulkPostRetrying(s) ==
    IF s = 503 THEN "call" ELSE IF RaisesForStatus(s) THEN "raised" ELSE "done"
\* r.raise_for_status(); return r
AfterBulkPost(s) == IF RaisesForStatus(s) THEN "raised" ELSE "done"

PostDocumentBulkAnnotation ==
    /\ op = "post_document_bulk_annotation"
    /\ pc = "call"
    /\ \E resp \in PostResponses :
        /\ r' = Some(resp)
        /\ posts' = posts + 1
        /\ pc' = AfterBulkPost(resp.status)
        /\ exc' = IF pc' = "raised" THEN Some(HTTPError) ELSE exc
        /\ ret' = IF pc' = "done" THEN Some(resp) ELSE ret
    /\ UNCHANGED <<op, retry_count, url, result, served,
                   gets, sleeps, slept, failures, deletes>>
    /\ UNCHANGED <<noanswer, uploadVars, initVars>>

\* get_csrf(session), evaluated while the form data of the POST is built: a GET
\* of the host and the read of its csrftoken cookie
PostDocumentAnnotationCsrf ==
    /\ op = "post_document_annotation"
    /\ pc = "call"
    /\ gets' = gets + 1
    /\ \E has_cookie \in BOOLEAN :
        IF has_cookie
        THEN /\ pc' = "post"
             /\ exc' = exc
        ELSE /\ pc' = "raised"
             /\ exc' = Some(KeyError)
    /\ UNCHANGED <<op, r, retry_count, ret, url, result, served,
                   sleeps, slept, failures, deletes>>
    /\ UNCHANGED <<posts, noanswer, uploadVars, initVars>>

\* r = session.post(url, data=...); return r
PostDocumentAnnotation ==
    /\ op = "post_document_annotation"
    /\ pc = "post"
    /\ \E resp \in PostResponses :
        /\ r' = Some(resp)
        /\ ret' = Some(resp)
    /\ posts' = posts + 1
    /\ pc' = "done"
    /\ UNCHANGED <<op, retry_count, exc, url, result, served,
                   gets, sleeps, slept, failures, deletes>>
    /\ UNCHANGED <<noanswer, uploadVars, initVars>>

\* the identifiers the server gives to what it creates
NewIds == {9}

\* assert r.status_code == requests.codes.created
LabelCreated(s) == s = 201

CreateLabel ==
    /\ op = "create_label"
    /\ pc = "call"
    /\ \E resp \in PostResponses, label_id \in NewIds :
        /\ r' = Some(resp)
        /\ IF LabelCreated(resp.status)
           THEN /\ ret' = Some(label_id)
                /\ exc' = exc
                /\ pc' = "done"
           ELSE /\ exc' = Some(AssertionError)
                /\ ret' = ret
                /\ pc' = "raised"
    /\ posts' = posts + 1
    /\ UNCHANGED <<op, retry_count, url, result, served,
                   gets, sleeps, slept, failures, deletes>>
    /\ UNCHANGED <<noanswer, uploadVars, initVars>>

\* r = session.delete(url); return r
DeleteDocumentAnnotation ==
    /\ op = "delete_document_annotation"
    /\ pc = "call"
    /\ \E resp \in Responses :
        /\ r' = Some(resp)
        /\ ret' = Some(resp)
    /\ deletes' = deletes + 1
    /\ pc' = "done"
    /\ UNCHANGED <<op, retry_count, exc, url, result, served,
                   gets, sleeps, slept, failures>>
    /\ UNCHANGED <<posts, noanswer, uploadVars, initVars>>

----------------------------------------------------------------------------
(* upload_file_konfuzio_api and utils.is_file *)

\* is_file(..., maximum_size=100000000)
MaximumSize == 100000000

\* the file at filepath: missing, or a regular file of one of these sizes
Sizes == {0, 1, MaximumSize, MaximumSize + 1}
Files == {None} \cup {Some(n) : n \in Sizes}

MissingFileError ==
    [type |-> "FileNotFoundError", text |-> "File expected but not found", detail |-> ""]
EmptyFileError ==
    [type |-> "FileExistsError", text |-> "Please check your file with size", detail |-> ""]

FileSizeAcceptedWithEmpty(size) == size >= 0
\* file_size > 0 or allow_empty, with allow_empty=False
FileSizeAccepted(size) == size > 0

\* file_size > maximum_size
IsBigFile(size) == size > MaximumSize

\* is_file(filepath) with raise_exception=True
UploadIsFile ==
    /\ op = "upload_file_konfuzio_api"
    /\ pc = "call"
    /\ IF file = None
       THEN /\ pc' = "raised"
            /\ exc' = Some(MissingFileError)
            /\ warned' = warned
       ELSE IF FileSizeAccepted(file[1])
       THEN /\ warned' = IsBigFile(file[1])
            /\ pc' = "post"
            /\ exc' = exc
       ELSE /\ pc' = "raised"
            /\ exc' = Some(EmptyFileError)
            /\ warned' = warned
    /\ UNCHANGED <<op, r, retry_count, ret, url, result, served,
                   gets, sleeps, slept, failures, deletes>>
    /\ UNCHANGED <<posts, noanswer, file, initVars>>

\* the read of the file, r = session.post(url=url, files=files, data=data)
\* and return r
UploadPost ==
    /\ op = "upload_file_konfuzio_api"
    /\ pc = "post"
    /\ \E resp \in PostResponses :
        /\ r' = Some(resp)
        /\ ret' = Some(resp)
    /\ posts' = posts + 1
    /\ pc' = "done"
    /\ UNCHANGED <<op, retry_count, exc, url, result, served,
                   gets, sleeps, slept, failures, deletes>>
    /\ UNCHANGED <<noanswer, uploadVars, initVars>>

----------------------------------------------------------------------------
(* cli.init_env and cli.create_project *)

\* the largest project identifier the server lists
MaxProjectId == 2

ProjectIds == 1 .. MaxProjectId

\* the identifiers of a project list, in the order the server sends them
ProjectLists ==
    {l \in SeqsUpTo(ProjectIds, MaxProjectId) :
        \A i \in 1 .. Len(l) : \A j \in 1 .. Len(l) : i < j => l[i] < l[j]}

Digits == <<"0", "1", "2", "3", "4", "5", "6", "7", "8", "9">>

RECURSIVE Str(_)
\* str(n) and "%s" % n of a non-negative integer
Str(n) ==
    IF n < 10 THEN Digits[n + 1] ELSE Str(n \div 10) \o Digits[(n % 10) + 1]

\* what the user types at "ID of the project you want to connect: "
Selections == {Str(n) : n \in 0 .. MaxProjectId + 1} \cup {"01", "abc"}

\* int(project_id), applied to an entry of [str(row[0]) for row in rows]
ParseInt(s) == CHOOSE n \in 0 .. MaxProjectId + 1 : Str(n) = s

\* rows = [list(x.values())[:2] for x in project_list];
\* rows.append([0, '[TO CREATE A NEW PROJECT]']), reduced to the column row[0]
RowsOf(project_list) == Append(project_list, 0)

SelectionValidAnyNumeral(project_id, rs) ==
    project_id \in {Str(n) : n \in 0 .. MaxProjectId + 1}
\* project_id in [str(row[0]) for row in rows]
SelectionValid(project_id, rs) ==
    \E i \in 1 .. Len(rs) : project_id = Str(rs[i])

DefaultHost == "https://app.konfuzio.com"
Hosts == {"", "https://konfuzio.example"}
User == "user"
Token == "t0k3n"
DefaultDataFolder == "data"

\* the .env file a former run left in the project folder
OldEnv == <<"KONFUZIO_HOST = old">>

HostLine(host) == "KONFUZIO_HOST = " \o host
UserLine == "KONFUZIO_USER = " \o User
TokenLine == "KONFUZIO_TOKEN = " \o Token
DataFolderLine(data_folder) == "KONFUZIO_DATA_FOLDER = " \o data_folder
ProjectIdLine(project_id) == "KONFUZIO_PROJECT_ID = " \o project_id

CredentialsError ==
    [type |-> "ValueError", text |-> "[ERROR] Your credentials are not correct!",
     detail |-> ""]
InvalidIdError ==
    [type |-> "ValueError", text |-> "[ERROR] The ID that you provided is not valid.",
     detail |-> ""]
NotCreatedError ==
    [type |-> "Exception", text |-> "The project was not created.", detail |-> ""]
AttributeError ==
    [type |-> "AttributeError", text |-> "'str' object has no attribute 'values'",
     detail |-> ""]
JSONDecodeError ==
    [type |-> "JSONDecodeError", text |-> "Expecting value", detail |-> ""]

\* response = get_auth_token(user, password) and the test of its status
InitEnvAuth ==
    /\ op = "init_env"
    /\ pc = "call"
    /\ \E resp \in PostResponses :
        /\ r' = Some(resp)
        /\ IF resp.status = 200
           THEN /\ token' = Some(Token)
                /\ pc' = "write"
                /\ exc' = exc
           ELSE /\ token' = token
                /\ pc' = "raised"
                /\ exc' = Some(CredentialsError)
    /\ posts' = posts + 1
    /\ UNCHANGED <<op, retry_count, ret, url, result, served,
                   gets, sleeps, slept, failures, deletes>>
    /\ UNCHANGED <<noanswer, uploadVars, envfile, rows, selection>>

\* the data folder prompts and open(".env", "w") with its four lines; the host
\* typed at the first prompt is used here for the first time
InitEnvWrite ==
    /\ op = "init_env"
    /\ pc = "write"
    /\ \E typed_host \in Hosts, typed_folder \in {"", "corpus"},
          not_empty \in BOOLEAN, update_data_dir \in {"Y", "N"} :
        LET host == IF typed_host = "" THEN DefaultHost ELSE typed_host
            first == IF typed_folder = "" THEN DefaultDataFolder ELSE typed_folder
            data_folder == IF not_empty /\ update_data_dir = "Y"
                           THEN "elsewhere" ELSE first
        IN  envfile' = <<HostLine(host), UserLine, TokenLine,
                         DataFolderLine(data_folder)>>
    /\ pc' = "list"
    /\ UNCHANGED <<op, r, retry_count, exc, ret, url, result, served,
                   gets, sleeps, slept, failures, deletes>>
    /\ UNCHANGED <<posts, noanswer, uploadVars, token, rows, selection>>

\* project_list = json.loads(get_project_list(token).text), before and after
\* the creation of a first project, and the rows made of it
InitEnvList ==
    /\ op = "init_env"
    /\ pc \in {"list", "relist"}
    /\ gets' = gets + 1
    /\ \E resp \in Responses :
        /\ r' = Some(resp)
        /\ IF resp.status = 200
           THEN \E project_list \in ProjectLists :
                    IF Len(project_list) = 0 /\ pc = "list"
                    THEN /\ pc' = "create_first"
                         /\ UNCHANGED <<rows, exc>>
                    ELSE /\ rows' = RowsOf(project_list)
                         /\ pc' = "select"
                         /\ exc' = exc
           ELSE /\ pc' = "raised"
                /\ exc' = Some(IF RaisesForStatus(resp.status)
                               THEN AttributeError ELSE JSONDecodeError)
                /\ rows' = rows
    /\ UNCHANGED <<op, retry_count, ret, url, result, served,
                   sleeps, slept, failures, deletes>>
    /\ UNCHANGED <<posts, noanswer, uploadVars, envfile, token, selection>>

\* _ = create_project(token) when the list is empty
InitEnvCreateFirst ==
    /\ op = "init_env"
    /\ pc = "create_first"
    /\ \E resp \in PostResponses :
        /\ r' = Some(resp)
        /\ IF resp.status = 201
           THEN /\ pc' = "relist"
                /\ exc' = exc
           ELSE /\ pc' = "raised"
                /\ exc' = Some(NotCreatedError)
    /\ posts' = posts + 1
    /\ UNCHANGED <<op, retry_count, ret, url, result, served,
                   gets, sleeps, slept, failures, deletes>>
    /\ UNCHANGED <<noanswer, uploadVars, initVars>>

\* project_id = input(...), its validation and, for a listed project, the
\* append of KONFUZIO_PROJECT_ID and the return of the file content
InitEnvSelect ==
    /\ op = "init_env"
    /\ pc = "select"
    /\ \E project_id \in Selections :
        /\ selection' = Some(project_id)
        /\ IF ~SelectionValid(project_id, rows)
           THEN /\ pc' = "raised"
                /\ exc' = Some(InvalidIdError)
                /\ UNCHANGED <<envfile, ret>>
           ELSE IF ParseInt(project_id) = 0
           THEN /\ pc' = "create"
                /\ UNCHANGED <<envfile, ret, exc>>
           ELSE /\ envfile' = Append(envfile, ProjectIdLine(project_id))
                /\ ret' = Some(envfile')
                /\ pc' = "done"
                /\ exc' = exc
    /\ UNCHANGED <<op, r, retry_count, url, result, served,
                   gets, sleeps, slept, failures, deletes>>
    /\ UNCHANGED <<posts, noanswer, uploadVars, token, rows>>

\* project_id = create_project(token) for the selection 0, the append of
\* KONFUZIO_PROJECT_ID and the return of the file content
InitEnvCreate ==
    /\ op = "init_env"
    /\ pc = "create"
    /\ \E resp \in PostResponses, project_id \in NewIds :
        /\ r' = Some(resp)
        /\ IF resp.status = 201
           THEN /\ envfile' = Append(envfile, ProjectIdLine(Str(project_id)))
                /\ ret' = Some(envfile')
                /\ pc' = "done"
                /\ exc' = exc
           ELSE /\ pc' = "raised"
                /\ exc' = Some(NotCreatedError)
                /\ UNCHANGED <<envfile, ret>>
    /\ posts' = posts + 1
    /\ UNCHANGED <<op, retry_count, url, result, served,
                   gets, sleeps, slept, failures, deletes>>
    /\ UNCHANGED <<noanswer, uploadVars, token, rows, selection>>

----------------------------------------------------------------------------

\* the operations that fetch through retry_get
RetryOperations ==
    {"retry_get", "get_meta_of_files", "get_document_annotations",
     "get_document_sections"}

\* the operations that issue a POST or a DELETE
WriteOperations ==
    {"post_document_bulk_annotation", "post_document_annotation", "create_label",
     "upload_file_konfuzio_api", "delete_document_annotation",
     "delete_file_konfuzio_api"}

Operations ==
    RetryOperations \cup {"download_file_konfuzio_api", "init_env"}
        \cup WriteOperations

Init ==
    /\ op \in Operations
    /\ pc = IF op \in RetryOperations THEN "get" ELSE "call"
    /\ r = None
    /\ retry_count = 0
    /\ exc = None
    /\ ret = None
    /\ url = 1
    /\ result = <<>>
    /\ served = <<>>
    /\ gets = 0
    /\ sleeps = 0
    /\ slept = 0
    /\ failures = 0
    /\ deletes = 0
    /\ posts = 0
    /\ noanswer = "never"
    /\ file \in (IF op = "upload_file_konfuzio_api" THEN Files ELSE {None})
    /\ warned = FALSE
    /\ envfile \in (IF op = "init_env" THEN {<<>>, OldEnv} ELSE {<<>>})
    /\ token = None
    /\ rows = <<>>
    /\ selection = None

Next ==
    \/ RetryGetRequest
    \/ RetryGetSleep
    \/ RetryGetNoResponse
    \/ MetaPage
    \/ GetDocumentAnnotations
    \/ GetDocumentSections
    \/ DownloadFile
    \/ DeleteFile
    \/ PostDocumentBulkAnnotation
    \/ PostDocumentAnnotationCsrf
    \/ PostDocumentAnnotation
    \/ CreateLabel
    \/ DeleteDocumentAnnotation
    \/ UploadIsFile
    \/ UploadPost
    \/ InitEnvAuth
    \/ InitEnvWrite
    \/ InitEnvList
    \/ InitEnvCreateFirst
    \/ InitEnvSelect
    \/ InitEnvCreate

Spec == Init /\ [][Next]_vars

----------------------------------------------------------------------------
(* Properties of retry_get *)

DirectCall == op = "retry_get"

\* every GET attempt of the call so far got a response
AllAnswered == noanswer = "never"

\* C1: a response with a status in 401..403 ends retry_get at once with the
\* ConnectionError that carries the detail of that response: it is the last
\* GET of the call (the GETs before it were all retried failures), and the
\* call has slept once per retried failure and not again after the response.
C1_AuthFailsAtOnce ==
    (DirectCall /\ AllAnswered /\ r # None /\ r[1].status \in 401..403) =>
        /\ pc = "raised"
        /\ exc = Some([type |-> "ConnectionError",
                       text |-> "Problem with credentials",
                       detail |-> r[1].detail])
        /\ ret = None
        /\ gets = failures + 1
        /\ sleeps = failures
        /\ slept = SleepSeconds * failures

C1_Witness ==
    /\ DirectCall
    /\ pc = "raised"
    /\ r # None
    /\ r[1].status = 401
    /\ r[1].detail = "bad token"
    /\ failures = 3
    /\ gets = 4

\* C2: after k retryable failures, k in 0..9, the call has not given up, and a
\* 2xx answer then makes it return that response after k + 1 GETs and k sleeps
\* of 15 units each.
C2_SucceedsAfterRetries ==
    (DirectCall /\ AllAnswered) =>
        /\ (r # None /\ Retryable(r[1].status) /\ failures <= 9) =>
                (pc \in {"sleep", "get"} /\ exc = None /\ ret = None)
        /\ (r # None /\ IsSuccess(r[1].status)) =>
                /\ pc = "done"
                /\ ret = Some(r[1])
                /\ exc = None
                /\ failures \in 0..9
                /\ gets = failures + 1
                /\ sleeps = failures
                /\ slept = 15 * failures

C2_Witness ==
    /\ DirectCall
    /\ pc = "done"
    /\ r # None
    /\ r[1].status = 200
    /\ ret = Some(r[1])
    /\ failures = 9
    /\ gets = 10
    /\ sleeps = 9
    /\ slept = 135

\* C3: the tenth retryable failure in a row ends the call with the TimeoutError
\* of the exhausted retries, carrying the detail of that tenth response, after
\* 10 GETs and 9 sleeps; no call issues an eleventh GET, and the error is
\* raised after no fewer than 10 failures.
C3_ExhaustedAfterTen ==
    (DirectCall /\ AllAnswered) =>
        /\ gets <= 10
        /\ failures = 10 =>
            /\ pc = "raised"
            /\ exc = Some([type |-> "TimeoutError",
                           text |-> "Unknown issue even after 10 retries",
                           detail |-> r[1].detail])
            /\ gets = 10
            /\ sleeps = 9
        /\ (exc # None /\ exc[1].text = "Unknown issue even after 10 retries") =>
                failures = 10

C3_Witness ==
    /\ DirectCall
    /\ pc = "raised"
    /\ failures = 10
    /\ gets = 10
    /\ r[1].status = 503
    /\ exc # None
    /\ exc[1].type = "TimeoutError"
    /\ exc[1].detail = "unavailable"

\* C4: a response with status 500 counts as one retry and the loop goes on:
\* the call raises on a 500 only when the 10 attempts are used up.
C4_ServerErrorIsRetried ==
    (DirectCall /\ r # None /\ r[1].status = 500 /\ gets < 10) => pc # "raised"

\* C14: a GET attempt that gets no response at all, the first of the call or
\* a later one, is handled inside the retry loop as a retryable failure: the
\* call sleeps and tries again, or raises the TimeoutError of the exhausted
\* retries once the 10 attempts are used; no other exception escapes.
C14_NoResponseIsRetried ==
    (DirectCall /\ noanswer = "last") =>
        \/ pc \in {"sleep", "get"} /\ exc = None
        \/ /\ pc = "raised"
           /\ retry_count = 10
           /\ exc # None
           /\ exc[1].type = "TimeoutError"

\* C15: a call of retry_get issues at most 10 GETs and sleeps at most 9 times,
\* 15 units each; it never stops before it has returned or raised; when it
\* ends, it has slept once less than it has issued GETs, and what it returns
\* is a 2xx response.
C15_RetryGetTerminates ==
    DirectCall =>
        /\ gets <= 10
        /\ sleeps <= 9
        /\ slept = 15 * sleeps
        /\ pc \in {"done", "raised"} \/ ENABLED Next
        /\ pc \in {"done", "raised"} => sleeps = gets - 1
        /\ pc = "done" => (ret # None /\ IsSuccess(ret[1].status))
        /\ pc = "raised" => exc # None

----------------------------------------------------------------------------
(* Properties of get_meta_of_files *)

RECURSIVE ConcatResults(_)
ConcatResults(ps) ==
    IF ps = <<>> THEN <<>> ELSE Head(ps).results \o ConcatResults(Tail(ps))

Range(s) == {s[i] : i \in 1..Len(s)}
Count(x, s) == Cardinality({i \in 1..Len(s) : s[i] = x})

MetaCall == op = "get_meta_of_files"

\* page i of the pages read so far links to page i + 1
LinksOn(i) ==
    /\ served[i].kind = "mapping"
    /\ served[i].has_next
    /\ served[i].next = Some(i + 1)

\* C5: while the loop runs, every page read was a mapping linking to the next
\* page, the next GET asks for that page, and the result holds the items of
\* the pages read, in page order; the loop ends on the first page without a
\* next (absent or null), so a chain of P pages is read in exactly P fetches
\* and the result holds its N items in order; a plain sequence is the result.
C5_PaginationAccumulates ==
    MetaCall =>
        /\ pc # "done" =>
            /\ \A i \in 1..Len(served) : LinksOn(i)
            /\ url = Len(served) + 1
            /\ result = ConcatResults(served)
        /\ pc = "done" =>
            /\ Len(served) >= 1
            /\ \A i \in 1..(Len(served) - 1) : LinksOn(i)
            /\ ~LinksOn(Len(served))
            /\ served[Len(served)].kind = "mapping" =>
                /\ served[Len(served)].has_next => served[Len(served)].next = None
                /\ result = ConcatResults(served)
            /\ served[Len(served)].kind = "sequence" =>
                result = served[Len(served)].results

C5_Witness ==
    /\ MetaCall
    /\ pc = "done"
    /\ Len(served) = 2
    /\ served[2].kind = "mapping"
    /\ served[2].has_next
    /\ Len(served[1].results) = 2
    /\ Len(served[2].results) = 1
    /\ Len(result) = 3
    /\ result[1] # result[2]

\* C6: the returned list holds only documents of dataset status 2 or 3, in
\* non-decreasing order of identifier, and each fetched document of status 2
\* or 3 as often as it was fetched.
C6_DatasetDocumentsSorted ==
    (MetaCall /\ pc = "done") =>
        /\ ret # None
        /\ \A i \in 1..Len(ret[1]) : ret[1][i].dataset_status \in {2, 3}
        /\ \A i \in 1..Len(ret[1]) : \A j \in i..Len(ret[1]) :
                ret[1][i].id <= ret[1][j].id
        /\ \A d \in Range(result) \cup Range(ret[1]) :
                Count(d, ret[1]) =
                    IF d.dataset_status \in {2, 3} THEN Count(d, result) ELSE 0

C6_Witness ==
    /\ MetaCall
    /\ pc = "done"
    /\ Len(result) = 3
    /\ result[1].id = 2
    /\ result[2].id = 3
    /\ result[3].id = 1
    /\ ret # None
    /\ Len(ret[1]) = 2

----------------------------------------------------------------------------
(* Properties of the annotation lists *)

NullsLastAscending(s) ==
    \A i \in 1..Len(s) : \A j \in i..Len(s) :
        \/ s[j].start_offset = None
        \/ /\ s[i].start_offset # None
           /\ s[i].start_offset[1] <= s[j].start_offset[1]

\* C7: a list returned by get_document_annotations or get_document_sections
\* holds exactly the fetched annotations that are revised, or correct, or
\* without identifier, ordered by start_offset with the null offsets last.
C7_AnnotationLists ==
    (op \in {"get_document_annotations", "get_document_sections"} /\ pc = "done") =>
        /\ ret # None
        /\ NullsLastAscending(ret[1])
        /\ \A a \in Range(served[1]) \cup Range(ret[1]) :
                Count(a, ret[1]) =
                    IF a.revised \/ a.is_correct \/ a.id = None
                    THEN Count(a, served[1]) ELSE 0

----------------------------------------------------------------------------
(* Properties of download_file_konfuzio_api and delete_file_konfuzio_api *)

DownloadCall == op = "download_file_konfuzio_api"

Whitelist == {"application/pdf", "image/jpeg", "image/png", "image/jpg"}

Whitelisted(ct) == ct # None /\ ct[1] \in Whitelist

C9_NonSuccessStatusRaises ==
    (DownloadCall /\ r # None) =>
        /\ ~IsSuccess(r[1].status) =>
                (pc = "raised" /\ exc # None /\ exc[1].type = "FileNotFoundError")
        /\ ret # None =>
                (IsSuccess(r[1].status) /\ Whitelisted(r[1].content_type))

DeleteCall == op = "delete_file_konfuzio_api"

\* C10: the delete returns True exactly when the status of the response to its
\* DELETE is 204; on every other status it raises AssertionError and returns
\* nothing.
C10_DeleteReturnsTrueOnlyOn204 ==
    (DeleteCall /\ r # None) =>
        /\ deletes = 1
        /\ ret = Some(TRUE) <=> r[1].status = 204
        /\ r[1].status = 204 => (pc = "done" /\ exc = None)
        /\ r[1].status # 204 =>
            /\ pc = "raised"
            /\ exc # None
            /\ exc[1].type = "AssertionError"
            /\ ret = None

C10_Witness ==
    /\ DeleteCall
    /\ r # None
    /\ r[1].status = 200
    /\ pc = "raised"
    /\ exc # None
    /\ exc[1].type = "AssertionError"
    /\ ret = None

----------------------------------------------------------------------------
(* Properties of the operations that POST or DELETE *)

\* C11: a call of post_document_bulk_annotation, post_document_annotation,
\* create_label, upload_file_konfuzio_api, delete_document_annotation or
\* delete_file_konfuzio_api issues at most one POST or DELETE: the call has
\* ended once that request is answered, whatever the status; these calls and
\* the download never repeat a GET either, so only retry_get repeats requests.
C11_WritesNeverRetried ==
    /\ op \in WriteOperations =>
        /\ posts + deletes <= 1
        /\ posts + deletes = 1 => pc \in {"done", "raised"}
        /\ gets <= 1
    /\ op = "download_file_konfuzio_api" => gets <= 1
    /\ op \in RetryOperations => posts + deletes = 0

C11_Witness ==
    /\ op = "post_document_bulk_annotation"
    /\ r # None
    /\ r[1].status = 503
    /\ posts = 1
    /\ pc = "raised"

UploadCall == op = "upload_file_konfuzio_api"

\* C12: with a missing path or an empty file the upload raises the file error
\* and issues no POST; a file over the maximum size only sets the warning, and
\* the POST is issued as for any other regular file.
C12_FileChecksBeforeUpload ==
    UploadCall =>
        /\ (file = None \/ file[1] = 0) =>
            /\ posts = 0
            /\ ~warned
            /\ pc \in {"call", "raised"}
            /\ pc = "raised" =>
                exc = Some(IF file = None THEN MissingFileError ELSE EmptyFileError)
        /\ (file # None /\ file[1] > 0) =>
            /\ pc \in {"call", "post", "done"}
            /\ exc = None
            /\ pc # "call" => (warned <=> file[1] > 100000000)
            /\ pc = "post" => ENABLED UploadPost
            /\ pc = "done" <=> posts = 1

C12_Witness ==
    /\ UploadCall
    /\ file = Some(100000001)
    /\ warned
    /\ posts = 1
    /\ pc = "done"
    /\ exc = None

----------------------------------------------------------------------------
(* Properties of init_env *)

InitCall == op = "init_env"

\* the four lines written after the token was obtained
IsWrittenEnv(f) ==
    /\ Len(f) = 4
    /\ f[1] \in {HostLine(DefaultHost), HostLine("https://konfuzio.example")}
    /\ f[2] = UserLine
    /\ f[3] = TokenLine
    /\ f[4] \in {DataFolderLine(d) : d \in {"data", "corpus", "elsewhere"}}

ProjectLines == {ProjectIdLine(Str(n)) : n \in 0 .. 9}

HasProjectLine(f) == \E i \in 1 .. Len(f) : f[i] \in ProjectLines

ListedSelections == {Str(rows[i]) : i \in 1 .. Len(rows)}

\* C13: in init_env the .env file is written only once the auth-token request
\* returned 200, and a non-200 answer raises the credentials error with the
\* file untouched; the KONFUZIO_PROJECT_ID line is appended only after a
\* selection that is among the listed identifiers; a selection that is not
\* raises the invalid-id error and leaves the four written lines as they are.
C13_InitEnvOrdering ==
    InitCall =>
        /\ envfile \notin {<<>>, OldEnv} => token # None
        /\ token = None =>
            /\ pc \in {"call", "raised"}
            /\ pc = "raised" => (exc = Some(CredentialsError) /\ r[1].status # 200)
        /\ token # None /\ pc # "write" => IsWrittenEnv(SubSeq(envfile, 1, 4))
        /\ HasProjectLine(envfile) =>
            /\ selection # None
            /\ selection[1] \in ListedSelections
            /\ Len(envfile) = 5
            /\ pc = "done"
        /\ (selection # None /\ selection[1] \notin ListedSelections) =>
            /\ pc = "raised"
            /\ exc = Some(InvalidIdError)
            /\ IsWrittenEnv(envfile)

C13_Witness ==
    /\ InitCall
    /\ selection = Some("01")
    /\ rows = <<1, 0>>
    /\ pc = "raised"
    /\ exc = Some(InvalidIdError)
    /\ Len(envfile) = 4

====
